---- MODULE Spec2Model ----
(***************************************************************************)
(* Model of arana's pkg/runtime/function calculator:                       *)
(*   - the AST-to-script translator (exprAtom2script and friends) as       *)
(*     operators over a strings.Builder modelled as the sequence of the    *)
(*     chunks written to it;                                               *)
(*   - scriptComputer (sync.Once memoisation), calculator.build over the   *)
(*     LRU cache, and the Eval* front end, as a state machine of           *)
(*     concurrent callers.                                                 *)
(***************************************************************************)
EXTENDS Naturals, Sequences, FiniteSets, TLC

VARIABLES
    heap,       \* address -> the node currently allocated there
    cache,      \* the LRU cache: sequence of [key, val], most recent first
    comps,      \* every scriptComputer allocated so far, by id
    th,         \* per caller: position in Eval* / build / compute / EvalString
    borrowed,   \* executors handed out by BorrowVM
    returned,   \* executors handed back by ReturnVM
    calls,      \* Eval* calls started so far
    accessed,   \* history: the keys in the cache, the one build used last first
    trNode,     \* translator harness: the node under translation
    trOut,      \* translator harness: the outcome of compute on trNode
    trPhase     \* translator harness: "new" | "computed" | "judged"

vars == <<heap, cache, comps, th, borrowed, returned, calls, accessed, trNode, trOut, trPhase>>

cacheVars == <<heap, cache, comps, th, borrowed, returned, calls, accessed>>
trVars == <<trNode, trOut, trPhase>>

(***************************************************************************)
(* Bounds of the model.                                                    *)
(***************************************************************************)
MaxDepth == 1
MaxBranches == 2
MaxArgs == 2
MaxCalls == 4
MaxReallocs == 1
Capacity == 2

(***************************************************************************)
(* Errors.  An error value is a record; nil is a record too.               *)
(***************************************************************************)
Nil == [kind |-> "nil"]

ErrCannotEvalWithColumnName == [kind |-> "sentinel", msg |-> "cannot eval function with column name"]

Errorf(m) == [kind |-> "error", msg |-> m]

WithStack(e) == [kind |-> "withStack", cause |-> e]

\* a panic in flight: its value, and the function it was raised in
PanicValue(m, site) == [kind |-> "panic", msg |-> m, site |-> site]

IsPanic(e) == e.kind = "panic"

IsEvalWithColumnErr(err) == err = ErrCannotEvalWithColumnName

(***************************************************************************)
(* strings.Builder: the sequence of chunks written; String() joins them.   *)
(***************************************************************************)
RECURSIVE Flat(_)
Flat(sb) == IF sb = <<>> THEN "" ELSE Head(sb) \o Flat(Tail(sb))

Ok(sb) == [sb |-> sb, err |-> Nil]

Fail(sb, e) == [sb |-> sb, err |-> e]

Write(sb, s) == Append(sb, s)

DigitChar(d) ==
    CASE d = 0 -> "0" [] d = 1 -> "1" [] d = 2 -> "2" [] d = 3 -> "3" [] d = 4 -> "4"
      [] d = 5 -> "5" [] d = 6 -> "6" [] d = 7 -> "7" [] d = 8 -> "8" [] d = 9 -> "9"

RECURSIVE FormatInt(_)
FormatInt(n) == IF n < 10 THEN DigitChar(n) ELSE FormatInt(n \div 10) \o DigitChar(n % 10)

_prefixMySQLFunc == "$"

FuncUnary == "$UNARY"

writeFuncName(sb, name) == Write(Write(sb, _prefixMySQLFunc), name)

writeVariable(sb, n) == Write(Write(Write(sb, "arguments["), FormatInt(n)), "]")

Escape(s) == CASE s = "o'k" -> "o\\'k" [] OTHER -> s

ConstantString(c) ==
    CASE c.kind = "int" -> FormatInt(c.i)
      [] c.kind = "string" -> "'" \o Escape(c.s) \o "'"
      [] OTHER -> "NULL"

writeCmpOp(sb, op) ==
    CASE op = "=" -> Write(sb, "==")
      [] op = "<>" -> Write(sb, "!=")
      [] OTHER -> Write(sb, op)

ExpressionAtomTypes ==
    {"IntervalExpressionAtom", "MathExpressionAtom", "ConstantExpressionAtom",
     "UnaryExpressionAtom", "ColumnNameExpressionAtom", "NestedExpressionAtom",
     "VariableExpressionAtom", "FunctionCallExpressionAtom", "SystemVariableExpressionAtom"}

(***************************************************************************)
(* The translator.  Every operator takes the builder written so far and a  *)
(* node and yields [sb, err]: the builder afterwards and the error         *)
(* returned (Nil for none).  A panic is the err of kind "panic": it is     *)
(* never handled as an error value, it unwinds through every caller.       *)
(***************************************************************************)
\* if err != nil { return err }: rest runs on the builder only when the call
\* before it returned no error and did not panic
IfNoErr(r, rest(_)) == IF r.err # Nil THEN r ELSE rest(r.sb)

\* the call of one translator function by another, by the callee's name
RECURSIVE Call(_, _, _)
RECURSIVE functionArgs(_, _, _)
RECURSIVE caseBranches(_, _, _, _)

\* it.Left, op, it.Right of a *ast.BinaryComparisonPredicateNode
compareNode(sb, p) ==
    IfNoErr(Call("handleCompareAtom", sb, p.left),
            LAMBDA l : Call("handleCompareAtom", Write(writeCmpOp(Write(l, " "), p.op), " "), p.right))

unaryInner(sb, inner) ==
    CASE inner.t \in ExpressionAtomTypes -> Call("exprAtom2script", sb, inner)
      [] inner.t = "BinaryComparisonPredicateNode" -> compareNode(sb, inner)
      [] OTHER -> Fail(sb, PanicValue("unreachable", "exprAtom2script: unary operand"))

\* the unchecked type assertions to *ast.PredicateExpressionNode and, of its P,
\* to *ast.AtomPredicateNode
atomOfExpression(sb, e) ==
    IF e.t # "PredicateExpressionNode"
    THEN Fail(sb, PanicValue("interface conversion", "type assertion"))
    ELSE IF e.p.t # "AtomPredicateNode"
    THEN Fail(sb, PanicValue("interface conversion", "type assertion"))
    ELSE Ok(sb)

\* return errors.WithStack(err), for an error returned; a panic passes unwrapped
withStackOf(r) ==
    IF r.err = Nil \/ IsPanic(r.err) THEN r ELSE Fail(r.sb, WithStack(r.err))

intervalAtom(sb, v) ==
    IF v.value.t # "AtomPredicateNode"
    THEN Fail(sb, Errorf("invalid expr for interval expression"))
    ELSE IfNoErr(withStackOf(Call("exprAtom2script", sb, v.value.a)),
                 LAMBDA s : Ok(Write(Write(s, " * "), FormatInt(v.nanos))))

functionCallAtom(sb, fn) ==
    CASE fn.t = "Function" -> Call("function2script", sb, fn)
      [] fn.t = "AggrFunction" -> Fail(sb, Errorf("aggr function should not appear here"))
      [] fn.t = "CastFunction" -> Call("castFunction2script", sb, fn)
      [] fn.t = "CaseWhenElseFunction" -> Call("caseWhenFunction2script", sb, fn)
      [] OTHER -> Fail(sb, Errorf("expression atom within function call is not supported yet"))

exprAtom2script(sb, node) ==
    CASE node.t = "IntervalExpressionAtom" -> intervalAtom(sb, node)
      [] node.t = "MathExpressionAtom" -> Call("math2script", sb, node)
      [] node.t = "ConstantExpressionAtom" -> Ok(Write(sb, ConstantString(node)))
      [] node.t = "UnaryExpressionAtom" ->
            IfNoErr(unaryInner(Write(Write(Write(Write(sb, FuncUnary), "('"), node.op), "', "),
                               node.inner),
                    LAMBDA s : Ok(Write(s, ")")))
      [] node.t = "ColumnNameExpressionAtom" -> Fail(sb, ErrCannotEvalWithColumnName)
      [] node.t = "NestedExpressionAtom" ->
            IfNoErr(atomOfExpression(sb, node.first),
                    LAMBDA s0 : IfNoErr(Call("exprAtom2script", Write(s0, "("), node.first.p.a),
                                        LAMBDA s : Ok(Write(s, ")"))))
      [] node.t = "VariableExpressionAtom" -> Ok(writeVariable(sb, node.n))
      [] node.t = "FunctionCallExpressionAtom" -> functionCallAtom(sb, node.f)
      [] OTHER -> Fail(sb, Errorf("expression atom is not supported yet"))

math2script(sb, node) ==
    IfNoErr(Call("exprAtom2script", sb, node.left),
            LAMBDA l : Call("exprAtom2script", Write(Write(Write(l, " "), node.op), " "), node.right))

dimension(sb, d) == IF d > 0 THEN Write(sb, FormatInt(d)) ELSE Write(sb, "0")

quoted(sb, s) == Write(Write(Write(sb, "'"), Escape(s)), "'")

\* the switch on cast.Type(): the builder afterwards, or the error returned; the
\* switch has no default case, so another type writes nothing
castHead(sb, cast) ==
    CASE cast.type \in {"CastToUnsigned", "CastToUnsignedInteger"} ->
            Ok(Write(writeFuncName(sb, "CAST_UNSIGNED"), "("))
      [] cast.type \in {"CastToSigned", "CastToSignedInteger"} ->
            Ok(Write(writeFuncName(sb, "CAST_SIGNED"), "("))
      [] cast.type = "CastToBinary" -> Fail(sb, Errorf("cast to binary is not supported yet"))
      [] cast.type = "CastToNChar" ->
            Ok(Write(dimension(Write(writeFuncName(sb, "CAST_NCHAR"), "("), cast.d0), ", "))
      [] cast.type = "CastToChar" ->
            LET dim == Write(dimension(Write(writeFuncName(sb, "CAST_CHAR"), "("), cast.d0), ", ")
                cs == IF cast.charset.ok THEN quoted(dim, cast.charset.v) ELSE Write(dim, "''")
            IN  Ok(Write(cs, ", "))
      [] cast.type = "CastToDate" -> Ok(Write(writeFuncName(sb, "CAST_DATE"), "("))
      [] cast.type = "CastToDateTime" -> Ok(Write(writeFuncName(sb, "CAST_DATETIME"), "("))
      [] cast.type = "CastToTime" -> Ok(Write(writeFuncName(sb, "CAST_TIME"), "("))
      [] cast.type = "CastToJson" -> Fail(sb, Errorf("cast to json is not supported yet"))
      [] cast.type = "CastToDecimal" ->
            LET a == Write(dimension(Write(writeFuncName(sb, "CAST_DECIMAL"), "("), cast.d0), ", ")
            IN  Ok(Write(dimension(a, cast.d1), ", "))
      [] OTHER -> Ok(sb)

\* what castFunction2script writes before the source: by type, by charset, or panic
castOpening(sb, node) ==
    IF node.cast.ok THEN castHead(sb, node.cast)
    ELSE IF node.charset.ok
         THEN Ok(Write(quoted(writeFuncName(sb, "CAST_CHARSET("), node.charset.v), ", "))
         ELSE Fail(sb, PanicValue("unreachable", "castFunction2script: no type, no charset"))

castFunction2script(sb, node) ==
    IfNoErr(castOpening(sb, node),
            LAMBDA h : IfNoErr(atomOfExpression(h, node.src),
                               LAMBDA s0 : IfNoErr(Call("exprAtom2script", s0, node.src.p.a),
                                                   LAMBDA s : Ok(Write(s, ")")))))

\* the loop over node.Args(), from index i on
functionArgs(sb, args, i) ==
    IF i > Len(args) THEN Ok(sb)
    ELSE IfNoErr(Call("handleArg", IF i > 1 THEN Write(Write(sb, ","), " ") ELSE sb, args[i]),
                 LAMBDA s : functionArgs(s, args, i + 1))

function2script(sb, node) ==
    IfNoErr(functionArgs(Write(writeFuncName(sb, node.name), "("), node.args, 1),
            LAMBDA s : Ok(Write(s, ")")))

handleCompareAtom(sb, node) ==
    IF node.t = "AtomPredicateNode" THEN Call("exprAtom2script", sb, node.a)
    ELSE Fail(sb, Errorf("unsupported compare atom node in case-when function"))

\* the unchecked type assertion of arg.Value to the type the case expects
argValueIs(sb, arg, t) ==
    IF arg.value.t = t THEN Ok(sb)
    ELSE Fail(sb, PanicValue("interface conversion", "type assertion"))

\* handleArg, case ast.FunctionArgExpression, after the type assertion
argExpression(sb, pn) ==
    CASE pn.t = "AtomPredicateNode" -> Call("exprAtom2script", sb, pn.a)
      [] pn.t = "BinaryComparisonPredicateNode" -> compareNode(sb, pn)
      [] OTHER -> Fail(sb, Errorf("unsupported"))

handleArg(sb, arg) ==
    CASE arg.type = "FunctionArgColumn" -> Fail(sb, ErrCannotEvalWithColumnName)
      [] arg.type = "FunctionArgConstant" -> Ok(Write(sb, ConstantString(arg.value)))
      [] arg.type = "FunctionArgExpression" ->
            IfNoErr(argValueIs(sb, arg, "PredicateExpressionNode"),
                    LAMBDA s : argExpression(s, arg.value.p))
      [] arg.type = "FunctionArgFunction" ->
            IfNoErr(argValueIs(sb, arg, "Function"),
                    LAMBDA s : Call("function2script", s, arg.value))
      [] arg.type = "FunctionArgCastFunction" ->
            IfNoErr(argValueIs(sb, arg, "CastFunction"),
                    LAMBDA s : Call("castFunction2script", s, arg.value))
      [] arg.type = "FunctionArgCaseWhenElseFunction" ->
            IfNoErr(argValueIs(sb, arg, "CaseWhenElseFunction"),
                    LAMBDA s : Call("caseWhenFunction2script", s, arg.value))
      [] OTHER -> Ok(sb)

\* the CASE header, translated into a builder of its own
caseHeader(c) ==
    IF c.t = "nil" THEN Ok(<<>>)
    ELSE IF c.t = "PredicateExpressionNode"
         THEN IF c.p.t = "AtomPredicateNode" THEN Call("exprAtom2script", <<>>, c.p.a)
              ELSE Fail(<<>>, Errorf("invalid expression type as the CASE body"))
         ELSE Fail(<<>>, Errorf("invalid expression type as the CASE body"))

\* the builder after the when-argument: " == (caseScript)" if there is a header
caseEquals(sb, caseScript) ==
    IF caseScript # "" THEN Write(Write(Write(sb, " == ("), caseScript), ")") ELSE sb

\* the loop over node.Branches(), from index i on
caseBranches(sb, branches, caseScript, i) ==
    IF i > Len(branches) THEN Ok(sb)
    ELSE IfNoErr(Call("handleArg",
                      Write(writeFuncName(IF i > 1 THEN Write(sb, ", ") ELSE sb, "IF"), "("),
                      branches[i][1]),
                 LAMBDA w : IfNoErr(Call("handleArg", Write(caseEquals(w, caseScript), ", "),
                                         branches[i][2]),
                                    LAMBDA t : caseBranches(t, branches, caseScript, i + 1)))

\* faulty variant: the closing loop runs once, whatever the number of branches
closeParens_once(sb, n) == Write(sb, ")")

RECURSIVE closeParens(_, _)
closeParens(sb, n) == IF n = 0 THEN sb ELSE closeParens(Write(sb, ")"), n - 1)

\* the else-argument, or the literal null
caseElse(sb, node) ==
    IF node.els.ok THEN Call("handleArg", Write(sb, ", "), node.els.arg)
    ELSE Ok(Write(Write(sb, ", "), "null"))

\* caseWhenFunction2script after the header: the branches, the else, the closing
caseBody(sb, node, caseScript) ==
    IfNoErr(caseBranches(sb, node.branches, caseScript, 1),
            LAMBDA b : IfNoErr(caseElse(b, node),
                               LAMBDA e : Ok(closeParens(e, Len(node.branches)))))

\* an error of the header is returned before anything is written to sb
caseWhenFunction2script(sb, node) ==
    IfNoErr(caseHeader(node.case), LAMBDA c : caseBody(sb, node, Flat(c)))

Call(f, sb, node) ==
    CASE f = "exprAtom2script" -> exprAtom2script(sb, node)
      [] f = "math2script" -> math2script(sb, node)
      [] f = "castFunction2script" -> castFunction2script(sb, node)
      [] f = "function2script" -> function2script(sb, node)
      [] f = "handleCompareAtom" -> handleCompareAtom(sb, node)
      [] f = "handleArg" -> handleArg(sb, node)
      [] f = "caseWhenFunction2script" -> caseWhenFunction2script(sb, node)

\* what a run of f leaves in the scriptComputer: the script or the error, and
\* whether the run ended by a panic (then neither field was assigned)
leftBy(r) ==
    IF IsPanic(r.err) THEN [script |-> "", err |-> Nil, panic |-> TRUE, site |-> r.err.site]
    ELSE IF r.err # Nil THEN [script |-> "", err |-> r.err, panic |-> FALSE, site |-> ""]
    ELSE [script |-> Flat(r.sb), err |-> Nil, panic |-> FALSE, site |-> ""]

\* the body of sc.Do in compute: the type switch on sc.source
translate(source) ==
    leftBy(CASE source.t = "CaseWhenElseFunction" -> caseWhenFunction2script(<<>>, source)
             [] source.t = "CastFunction" -> castFunction2script(<<>>, source)
             [] source.t = "Function" -> function2script(<<>>, source)
             [] source.t = "MathExpressionAtom" -> math2script(<<>>, source)
             [] OTHER -> Fail(<<>>, Errorf("invalid script source node type")))

(***************************************************************************)
(* AST nodes (pkg/runtime/ast, consumed read-only): records tagged by      *)
(* their concrete type in field t.                                         *)
(***************************************************************************)
Const(i) == [t |-> "ConstantExpressionAtom", kind |-> "int", i |-> i]

ConstS(str) == [t |-> "ConstantExpressionAtom", kind |-> "string", s |-> str]

Col == [t |-> "ColumnNameExpressionAtom"]

Var(n) == [t |-> "VariableExpressionAtom", n |-> n]

SysVar == [t |-> "SystemVariableExpressionAtom"]

Math(l, op, r) == [t |-> "MathExpressionAtom", left |-> l, op |-> op, right |-> r]

Unary(op, inner) == [t |-> "UnaryExpressionAtom", op |-> op, inner |-> inner]

Nested(first) == [t |-> "NestedExpressionAtom", first |-> first]

Interval(value, nanos) == [t |-> "IntervalExpressionAtom", value |-> value, nanos |-> nanos]

FnCall(f) == [t |-> "FunctionCallExpressionAtom", f |-> f]

AtomPred(a) == [t |-> "AtomPredicateNode", a |-> a]

BinCmp(l, op, r) == [t |-> "BinaryComparisonPredicateNode", left |-> l, op |-> op, right |-> r]

LikePred == [t |-> "LikePredicateNode"]

PredExpr(p) == [t |-> "PredicateExpressionNode", p |-> p]

LogicalExpr == [t |-> "LogicalExpressionNode"]

NoExpr == [t |-> "nil"]

Fn(name, args) == [t |-> "Function", name |-> name, args |-> args]

Aggr == [t |-> "AggrFunction"]

OtherFn == [t |-> "OtherFunction"]

None == [ok |-> FALSE]

Some(v) == [ok |-> TRUE, v |-> v]

CastType(type, d0, d1, charset) ==
    [ok |-> TRUE, type |-> type, d0 |-> d0, d1 |-> d1, charset |-> charset]

Cast(cast, charset, src) == [t |-> "CastFunction", cast |-> cast, charset |-> charset, src |-> src]

NoElse == [ok |-> FALSE]

Else(arg) == [ok |-> TRUE, arg |-> arg]

CaseWhen(case, branches, els) ==
    [t |-> "CaseWhenElseFunction", case |-> case, branches |-> branches, els |-> els]

Arg(type, value) == [type |-> type, value |-> value]

ArgColumn == Arg("FunctionArgColumn", Col)

ArgConst(c) == Arg("FunctionArgConstant", c)

ArgAtom(a) == Arg("FunctionArgExpression", PredExpr(AtomPred(a)))

ArgPred(p) == Arg("FunctionArgExpression", PredExpr(p))

Expr(a) == PredExpr(AtomPred(a))

(***************************************************************************)
(* The nodes the translator is run on: every atom shape of the switch of   *)
(* exprAtom2script around every smaller atom, to depth MaxDepth, and the   *)
(* four node types compute dispatches on.                                  *)
(***************************************************************************)
Leaves == {Const(1), ConstS("A"), Col, Var(0), SysVar}

CmpOps == {"=", "<>", "<"}

CastTypes ==
    {"CastToBinary", "CastToNChar", "CastToChar", "CastToDate", "CastToDateTime",
     "CastToTime", "CastToJson", "CastToDecimal", "CastToSigned", "CastToUnsigned",
     "CastToSignedInteger", "CastToUnsignedInteger"}

\* a CastType value that is none of the twelve constants of the switch
CastTypeOther == "CastType(other)"

Malformed ==
    {Unary("-", LikePred), Nested(PredExpr(LikePred)), Nested(LogicalExpr),
     Interval(LikePred, 1000), FnCall(Aggr), FnCall(OtherFn)}

Wraps(A) ==
    {Nested(Expr(a)) : a \in A}
    \cup {Unary("-", a) : a \in A}
    \cup {Unary("!", BinCmp(AtomPred(a), op, AtomPred(Const(1)))) : a \in A, op \in CmpOps}
    \cup {Interval(AtomPred(a), 1000) : a \in A}
    \cup {Math(a, "+", Const(1)) : a \in A}
    \cup {Math(Const(1), "*", a) : a \in A}
    \cup {FnCall(Fn("ABS", <<ArgAtom(a)>>)) : a \in A}
    \cup {FnCall(Cast(CastType("CastToSigned", 0, 0, None), None, Expr(a))) : a \in A}
    \cup {FnCall(CaseWhen(NoExpr, <<<<ArgConst(Const(1)), ArgAtom(a)>>>>, NoElse)) : a \in A}

RECURSIVE Atoms(_)
Atoms(d) == IF d = 0 THEN Leaves ELSE Atoms(d - 1) \cup Wraps(Atoms(d - 1)) \cup Malformed

MathNodes ==
    {Math(a, "+", b) : a \in Atoms(MaxDepth), b \in {Const(2), Col}}
    \cup {Math(b, "-", a) : a \in Atoms(MaxDepth), b \in {Const(2), Col}}

SmallArgs ==
    {ArgColumn, ArgConst(Const(1)), ArgAtom(Var(0)),
     ArgPred(BinCmp(AtomPred(Var(0)), "=", AtomPred(Const(1))))}

ArgSet ==
    SmallArgs
    \cup {ArgAtom(a) : a \in Atoms(MaxDepth)}
    \cup {ArgPred(BinCmp(AtomPred(a), op, AtomPred(b))) : a, b \in {Const(1), Col}, op \in CmpOps}
    \cup {ArgPred(BinCmp(LikePred, "=", AtomPred(Col))), ArgPred(LikePred),
          Arg("FunctionArgExpression", LogicalExpr),
          Arg("FunctionArgFunction", Fn("NOW", <<>>)),
          Arg("FunctionArgFunction", Fn("ABS", <<ArgColumn>>)),
          Arg("FunctionArgFunction", Aggr),
          Arg("FunctionArgCastFunction", Cast(CastType("CastToDate", 0, 0, None), None, Expr(Col))),
          Arg("FunctionArgCastFunction", LikePred),
          Arg("FunctionArgCaseWhenElseFunction",
              CaseWhen(NoExpr, <<<<ArgConst(Const(1)), ArgColumn>>>>, NoElse)),
          Arg("FunctionArgCaseWhenElseFunction", Aggr),
          Arg("FunctionArgUnknown", Col)}

RECURSIVE SeqsUpTo(_, _)
SeqsUpTo(S, n) ==
    IF n = 0 THEN {<<>>}
    ELSE LET shorter == SeqsUpTo(S, n - 1) IN
         shorter \cup {Append(q, x) : q \in {r \in shorter : Len(r) = n - 1}, x \in S}

FunctionNodes ==
    {Fn("F", <<a>>) : a \in ArgSet} \cup {Fn("G", q) : q \in SeqsUpTo(SmallArgs, MaxArgs)}

CastSources ==
    {Expr(Var(0)), Expr(Col), Expr(Math(Const(1), "+", Var(0))), PredExpr(LikePred), LogicalExpr}

CastNodes ==
    {Cast(CastType(ty, d0, d1, cs), None, src) :
        ty \in CastTypes \cup {CastTypeOther}, d0 \in {0, 10}, d1 \in {0, 2},
        cs \in {None, Some("utf8"), Some("o'k")}, src \in CastSources}
    \cup {Cast(None, cs, src) : cs \in {None, Some("utf8"), Some("o'k")}, src \in CastSources}

CaseSubjects ==
    {NoExpr, Expr(Math(Const(2), "+", Const(1))), Expr(Col), PredExpr(LikePred), LogicalExpr}

Whens == {ArgConst(Const(1)), ArgAtom(Var(0)), ArgColumn}

Thens ==
    {ArgConst(ConstS("A")), ArgAtom(SysVar),
     Arg("FunctionArgCaseWhenElseFunction",
         CaseWhen(NoExpr, <<<<ArgConst(Const(2)), ArgConst(ConstS("B"))>>>>, NoElse))}

Elses == {NoElse, Else(ArgConst(ConstS("*"))), Else(ArgColumn), Else(ArgAtom(Var(1)))}

CaseNodes ==
    {CaseWhen(c, b, e) :
        c \in CaseSubjects,
        b \in SeqsUpTo({<<w, t>> : w \in Whens, t \in Thens}, MaxBranches) \ {<<>>},
        e \in Elses}

TrNodes == MathNodes \cup FunctionNodes \cup CastNodes \cup CaseNodes \cup {Aggr}

(***************************************************************************)
(* The translator harness: compute() on a fresh scriptComputer of trNode,  *)
(* then the caller's IsEvalWithColumnErr on the error it got.              *)
(***************************************************************************)
\* what compute left, and the verdict of IsEvalWithColumnErr, not asked yet
Returned(r) ==
    [script |-> r.script, err |-> r.err, panic |-> r.panic, site |-> r.site,
     isColumnErr |-> FALSE]

NoOut == [script |-> "", err |-> Nil, panic |-> FALSE, site |-> "", isColumnErr |-> FALSE]

\* a fresh scriptComputer of any node of TrNodes; the cache is not in use
TrInit ==
    /\ trNode \in TrNodes
    /\ trOut = NoOut
    /\ trPhase = "new"
    /\ heap = <<>>
    /\ cache = <<>>
    /\ comps = <<>>
    /\ th = <<>>
    /\ borrowed = 0
    /\ returned = 0
    /\ calls = 0
    /\ accessed = <<>>

TrCompute ==
    /\ trPhase = "new"
    /\ trOut' = Returned(translate(trNode))
    /\ trPhase' = "computed"
    /\ UNCHANGED <<trNode, cacheVars>>

TrJudge ==
    /\ trPhase = "computed"
    /\ ~trOut.panic
    /\ trOut.err # Nil
    /\ trOut' = [trOut EXCEPT !.isColumnErr = IsEvalWithColumnErr(trOut.err)]
    /\ trPhase' = "judged"
    /\ UNCHANGED <<trNode, cacheVars>>

TrNext == TrCompute \/ TrJudge

TrSpec == TrInit /\ [][TrNext]_vars

(***************************************************************************)
(* Claims about the translator, checked under TrSpec.                      *)
(***************************************************************************)
RECURSIVE RootCause(_)
RootCause(e) == IF e.kind = "withStack" THEN RootCause(e.cause) ELSE e

\* C4: an evaluation that stops at a column reference, wherever in the tree the
\* reference stands, fails with the column-reference condition: the caller's
\* IsEvalWithColumnErr is true of the error it gets; and it is true of no other
\* error.
C4_ColumnRefCondition ==
    trPhase = "judged" =>
        (trOut.isColumnErr <=> RootCause(trOut.err) = ErrCannotEvalWithColumnName)

\* C8: the translator never ends by a panic, unless for a unary operation whose
\* operand is neither an expression atom nor a binary comparison.
C8_OnlyUnaryOperandPanics ==
    (trPhase # "new" /\ trOut.panic) => trOut.site = "exprAtom2script: unary operand"

\* the parts of a CASE node, each translated on its own
PartOf(arg) == Flat(handleArg(<<>>, arg).sb)

SubjectOf(node) == Flat(exprAtom2script(<<>>, node.case.p.a).sb)

RECURSIVE IfChain(_, _)
IfChain(node, i) ==
    "$IF(" \o PartOf(node.branches[i][1])
      \o (IF node.case.t # "nil" THEN " == (" \o SubjectOf(node) \o ")" ELSE "")
      \o ", " \o PartOf(node.branches[i][2]) \o ", "
      \o (IF i < Len(node.branches) THEN IfChain(node, i + 1)
          ELSE IF node.els.ok THEN PartOf(node.els.arg) ELSE "null")
      \o ")"

\* C9: a CASE-WHEN-ELSE node whose parts translate without error renders as the
\* right-nested chain $IF(when [== (subject)], then, $IF(..., else-or-null)) with
\* one $IF( and one closing parenthesis per branch, in branch order.
C9_CaseIsRightNestedChain ==
    (trPhase # "new" /\ trNode.t = "CaseWhenElseFunction" /\ ~trOut.panic /\ trOut.err = Nil)
        => trOut.script = IfChain(trNode, 1)

C9_Witness ==
    /\ trPhase = "computed"
    /\ trNode.t = "CaseWhenElseFunction"
    /\ Len(trNode.branches) >= 2
    /\ trNode.case.t # "nil"
    /\ ~trNode.els.ok
    /\ trOut.err = Nil /\ ~trOut.panic
    /\ trOut.script = "$IF(1 == (2 + 1), 'A', $IF(arguments[0] == (2 + 1), 'A', null))"

CastKinds ==
    {"UNSIGNED", "SIGNED", "NCHAR", "CHAR", "DATE", "DATETIME", "TIME", "DECIMAL"}

SizeOf(d) == IF d > 0 THEN FormatInt(d) ELSE "0"

CastArgsOf(kind, cast) ==
    CASE kind = "NCHAR" -> SizeOf(cast.d0) \o ", "
      [] kind = "CHAR" ->
            SizeOf(cast.d0) \o ", '"
              \o (IF cast.charset.ok THEN Escape(cast.charset.v) ELSE "") \o "', "
      [] kind = "DECIMAL" -> SizeOf(cast.d0) \o ", " \o SizeOf(cast.d1) \o ", "
      [] OTHER -> ""

\* C10: a CAST node with a target type either fails to translate (always when the
\* target is BINARY or JSON) or renders as $CAST_<KIND>(<size arguments><source>),
\* whatever the target type is.
C10_CastHasOpening ==
    (trPhase # "new" /\ trNode.t = "CastFunction" /\ trNode.cast.ok /\ ~trOut.panic) =>
        /\ trNode.cast.type \in {"CastToBinary", "CastToJson"} => trOut.err # Nil
        /\ trOut.err = Nil =>
              \E kind \in CastKinds :
                  trOut.script = "$CAST_" \o kind \o "(" \o CastArgsOf(kind, trNode.cast)
                                   \o Flat(exprAtom2script(<<>>, trNode.src.p.a).sb) \o ")"

(***************************************************************************)
(* The cache, the scriptComputers and the callers.                         *)
(***************************************************************************)
\* the calling goroutines
Threads == {"g1", "g2"}

\* the addresses nodes are allocated at (%p)
Addrs == {"0xc01", "0xc02"}

\* the nodes callers evaluate: one that translates, one that fails with the
\* column-name error, one whose translation panics, one of another type
NodeA == Math(Var(0), "+", Const(1))

NodeE == Math(Col, "+", Const(1))

NodeP == Math(Unary("-", LikePred), "+", Const(1))

NodeF == Fn("ABS", <<ArgAtom(Var(0))>>)

Contents == {NodeA, NodeE, NodeP, NodeF}

\* the node each address holds at the start
InitNode(a) == IF a = "0xc01" THEN NodeA ELSE NodeE

\* what vm.Eval may do with a script: return a value, return an error, panic
Outcomes == {"value", "error", "panic"}

NoNode == [t |-> "nil"]

Idle ==
    [pc |-> "idle", addr |-> "", gen |-> 0, node |-> NoNode, args |-> <<>>,
     sc |-> 0, script |-> "", err |-> Nil, vm |-> "none", ran |-> <<>>, outcome |-> ""]

\* faulty variant: the key is the concrete type alone, "%T"
Key_typeOnly(node, addr) == <<node.t>>

\* key := fmt.Sprintf("%T_%p", node, node)
Key(node, addr) == <<node.t, addr>>

\* newScriptComputer(source); made (the node it was made for), forAddr, forGen,
\* runs, evicted and panicked are history
newScriptComputer(source, addr, gen) ==
    [source |-> source, once |-> "new", script |-> "", err |-> Nil,
     made |-> source, forAddr |-> addr, forGen |-> gen, runs |-> 0, evicted |-> FALSE,
     panicked |-> FALSE]

Init ==
    /\ heap = [a \in Addrs |-> [gen |-> 0, node |-> InitNode(a)]]
    /\ cache = <<>>
    /\ comps = <<>>
    /\ th = [t \in Threads |-> Idle]
    /\ borrowed = 0
    /\ returned = 0
    /\ calls = 0
    /\ accessed = <<>>
    /\ trNode = NoNode
    /\ trOut = NoOut
    /\ trPhase = "off"

\* position of key in the cache, 0 when absent
IndexOf(c, key) ==
    IF \E i \in 1 .. Len(c) : c[i].key = key
    THEN CHOOSE i \in 1 .. Len(c) : c[i].key = key
    ELSE 0

RemoveAt(c, i) == SubSeq(c, 1, i - 1) \o SubSeq(c, i + 1, Len(c))

\* lru.Cache.Get: a hit moves the entry to the front
CacheGet(c, key) ==
    LET i == IndexOf(c, key) IN
    IF i = 0 THEN c ELSE <<c[i]>> \o RemoveAt(c, i)

\* simplelru.Add: a present key is updated and moved to the front; an absent one
\* is pushed to the front, and the oldest entry goes when the size is exceeded
CacheAdd(c, key, val) ==
    LET i == IndexOf(c, key)
        pushed == <<[key |-> key, val |-> val]>> \o (IF i = 0 THEN c ELSE RemoveAt(c, i))
    IN  IF Len(pushed) > Capacity THEN SubSeq(pushed, 1, Capacity) ELSE pushed

\* faulty variant: Add in the place of PeekOrAdd, the entry of a present key is replaced
CachePeekOrAdd_alwaysAdd(c, key, val) == CacheAdd(c, key, val)

\* lru.Cache.PeekOrAdd: a present key is left as it is (no move to the front)
CachePeekOrAdd(c, key, val) ==
    IF IndexOf(c, key) # 0 THEN c ELSE CacheAdd(c, key, val)

\* the scriptComputers whose entry was in c and whose key is no longer in d
Dropped(c, d) == {c[i].val : i \in {j \in 1 .. Len(c) : IndexOf(d, c[j].key) = 0}}

RECURSIVE SumGen(_, _)
SumGen(h, S) ==
    IF S = {} THEN 0 ELSE LET a == CHOOSE x \in S : TRUE IN h[a].gen + SumGen(h, S \ {a})

\* how many nodes have been discarded so far
Gens(h) == SumGen(h, DOMAIN h)

\* a discarded node's address is taken by a new node; no caller holds the old node
Realloc(a, c) ==
    /\ Gens(heap) < MaxReallocs
    /\ \A t \in Threads : th[t].pc = "idle" \/ th[t].addr # a
    /\ heap' = [heap EXCEPT ![a] = [gen |-> heap[a].gen + 1, node |-> c]]
    /\ UNCHANGED <<cache, comps, th, borrowed, returned, calls, accessed, trVars>>

\* history: build has found or inserted key; the keys no longer in c are dropped
Used(acc, key, c) ==
    <<key>> \o SelectSeq(acc, LAMBDA k : k # key /\ IndexOf(c, k) # 0)

\* Eval / EvalFunction / EvalCastFunction / EvalCaseWhenFunction entered, with
\* arguments of the call's own; what the caller's last call returned is dropped
Eval(t, a) ==
    /\ th[t].pc = "idle"
    /\ calls < MaxCalls
    /\ calls' = calls + 1
    /\ th' = [th EXCEPT ![t] = [Idle EXCEPT !.pc = "get", !.addr = a, !.gen = heap[a].gen,
                                            !.node = heap[a].node, !.args = <<t>>]]
    /\ UNCHANGED <<heap, cache, comps, borrowed, returned, accessed, trVars>>

\* build: c.cache().Get(key); on a miss, newborn := newScriptComputer(node), which
\* only this caller knows until the cache takes it
BuildGet(t) ==
    /\ th[t].pc = "get"
    /\ LET key == Key(th[t].node, th[t].addr)
           i == IndexOf(cache, key)
       IN  IF i # 0
           THEN /\ cache' = CacheGet(cache, key)
                /\ accessed' = Used(accessed, key, cache')
                /\ th' = [th EXCEPT ![t].pc = "compute", ![t].sc = cache[i].val]
           ELSE /\ th' = [th EXCEPT ![t].pc = "add"]
                /\ UNCHANGED <<cache, accessed>>
    /\ UNCHANGED <<heap, comps, borrowed, returned, calls, trVars>>

\* build: prev, ok, _ := c.cache().PeekOrAdd(key, newborn)
BuildPeekOrAdd(t) ==
    /\ th[t].pc = "add"
    /\ LET key == Key(th[t].node, th[t].addr)
           newborn == Len(comps) + 1
           after == CachePeekOrAdd(cache, key, newborn)
           used == after[IndexOf(after, key)].val
           all == IF used = newborn
                  THEN Append(comps, newScriptComputer(th[t].node, th[t].addr, th[t].gen))
                  ELSE comps
       IN  /\ cache' = after
           /\ accessed' = Used(accessed, key, after)
           /\ th' = [th EXCEPT ![t].pc = "compute", ![t].sc = used]
           /\ comps' = [k \in 1 .. Len(all) |->
                          [all[k] EXCEPT !.evicted = @ \/ k \in Dropped(cache, after)]]
    /\ UNCHANGED <<heap, borrowed, returned, calls, trVars>>

\* what Eval* does with what build returned: the error as it is, or EvalString
AfterBuild(t, script, err) ==
    IF err # Nil
    THEN th' = [th EXCEPT ![t].pc = "idle", ![t].script = script, ![t].err = err,
                          ![t].outcome = "builderr"]
    ELSE th' = [th EXCEPT ![t].pc = "borrow", ![t].script = script]

\* faulty variant: a caller that finds the translation running does not wait for it
ComputeDone_noWait(t) ==
    /\ th[t].pc = "compute"
    /\ comps[th[t].sc].once \in {"running", "done"}
    /\ AfterBuild(t, comps[th[t].sc].script, comps[th[t].sc].err)
    /\ UNCHANGED <<heap, cache, comps, borrowed, returned, calls, accessed, trVars>>

\* compute: sc.Do finds the Once done; return sc.script, sc.err
ComputeDone(t) ==
    /\ th[t].pc = "compute"
    /\ comps[th[t].sc].once = "done"
    /\ AfterBuild(t, comps[th[t].sc].script, comps[th[t].sc].err)
    /\ UNCHANGED <<heap, cache, comps, borrowed, returned, calls, accessed, trVars>>

\* compute: sc.Do finds the Once not started and runs f; a caller that finds it
\* running waits for it
DoBegin(t) ==
    /\ th[t].pc = "compute"
    /\ comps[th[t].sc].once = "new"
    /\ comps' = [comps EXCEPT ![th[t].sc].once = "running"]
    /\ th' = [th EXCEPT ![t].pc = "translating"]
    /\ UNCHANGED <<heap, cache, borrowed, returned, calls, accessed, trVars>>

\* faulty variant: the error of the translation is not assigned to sc.err
EndOfDo_errNotStored(t, sc, r) ==
    /\ comps' = [comps EXCEPT ![sc].script = r.script,
                              ![sc].source = NoNode, ![sc].once = "done",
                              ![sc].runs = @ + 1, ![sc].panicked = r.panic]
    /\ IF r.panic
       THEN th' = [th EXCEPT ![t].pc = "idle", ![t].outcome = "buildpanic"]
       ELSE AfterBuild(t, r.script, Nil)

\* the end of f, r being what the run leaves: script or err assigned, the
\* deferred sc.source = nil, the Once done (after a panic too); then return
\* sc.script, sc.err, unless f panicked
EndOfDo(t, sc, r) ==
    /\ comps' = [comps EXCEPT ![sc].script = r.script, ![sc].err = r.err,
                              ![sc].source = NoNode, ![sc].once = "done",
                              ![sc].runs = @ + 1, ![sc].panicked = r.panic]
    /\ IF r.panic
       THEN th' = [th EXCEPT ![t].pc = "idle", ![t].outcome = "buildpanic"]
       ELSE AfterBuild(t, r.script, r.err)

\* compute: f runs to its end
DoEnd(t) ==
    /\ th[t].pc = "translating"
    /\ EndOfDo(t, th[t].sc, translate(comps[th[t].sc].source))
    /\ UNCHANGED <<heap, cache, borrowed, returned, calls, accessed, trVars>>

\* EvalString: vm := BorrowVM(); defer ReturnVM(vm)
Borrow(t) ==
    /\ th[t].pc = "borrow"
    /\ borrowed' = borrowed + 1
    /\ th' = [th EXCEPT ![t].pc = "exec", ![t].vm = "held"]
    /\ UNCHANGED <<heap, cache, comps, returned, calls, accessed, trVars>>

\* faulty variant: ReturnVM(vm) after vm.Eval and not deferred, so a panic skips it
ExecReturn_notDeferred(t, outcome) ==
    /\ th[t].pc = "exec"
    /\ returned' = IF outcome = "panic" THEN returned ELSE returned + 1
    /\ th' = [th EXCEPT ![t].pc = "idle", ![t].outcome = outcome,
                        ![t].vm = IF outcome = "panic" THEN "held" ELSE "returned",
                        ![t].ran = <<th[t].script, th[t].args>>]
    /\ UNCHANGED <<heap, cache, comps, borrowed, calls, accessed, trVars>>

\* faulty variant: the error of an execution is kept in the scriptComputer
ExecReturn_cachesError(t, outcome) ==
    /\ th[t].pc = "exec"
    /\ returned' = returned + 1
    /\ th' = [th EXCEPT ![t].pc = "idle", ![t].outcome = outcome, ![t].vm = "returned",
                        ![t].ran = <<th[t].script, th[t].args>>]
    /\ comps' = IF outcome = "error" /\ th[t].sc # 0
                THEN [comps EXCEPT ![th[t].sc].err = Errorf("execution failed")]
                ELSE comps
    /\ UNCHANGED <<heap, cache, borrowed, calls, accessed, trVars>>

\* EvalString: vm.Eval(script, args), then the deferred ReturnVM(vm), on return
\* and on panic alike; the call is over and the caller has its result
ExecReturn(t, outcome) ==
    /\ th[t].pc = "exec"
    /\ returned' = returned + 1
    /\ th' = [th EXCEPT ![t].pc = "idle", ![t].outcome = outcome, ![t].vm = "returned",
                        ![t].ran = <<th[t].script, th[t].args>>]
    /\ UNCHANGED <<heap, cache, comps, borrowed, calls, accessed, trVars>>

Next ==
    \/ \E a \in Addrs, c \in Contents : Realloc(a, c)
    \/ \E t \in Threads, a \in Addrs : Eval(t, a)
    \/ \E t \in Threads : BuildGet(t)
    \/ \E t \in Threads : BuildPeekOrAdd(t)
    \/ \E t \in Threads : ComputeDone(t)
    \/ \E t \in Threads : DoBegin(t)
    \/ \E t \in Threads : DoEnd(t)
    \/ \E t \in Threads : Borrow(t)
    \/ \E t \in Threads, o \in Outcomes : ExecReturn(t, o)

Spec == Init /\ [][Next]_vars

(***************************************************************************)
(* Claims about the cache, the scriptComputers and Eval*, checked under    *)
(* Spec.  A caller keeps what its last call returned until its next call.  *)
(***************************************************************************)
\* build has returned (script, err) to caller t
Built(t) ==
    \/ th[t].pc \in {"borrow", "exec"}
    \/ th[t].pc = "idle" /\ th[t].outcome \in Outcomes \cup {"builderr"}

\* the call of t is over
Finished(t) == th[t].pc = "idle" /\ th[t].outcome # ""

\* t and u evaluate, or last evaluated, the same node
SameNode(t, u) == th[t].addr = th[u].addr /\ th[t].gen = th[u].gen

\* the scriptComputer handed to t was made for the node t evaluates
OwnComputer(t) ==
    /\ comps[th[t].sc].forAddr = th[t].addr
    /\ comps[th[t].sc].forGen = th[t].gen

Instances == DOMAIN comps

SameMade(j, k) == comps[j].forAddr = comps[k].forAddr /\ comps[j].forGen = comps[k].forGen

\* no scriptComputer made for the node of t has been evicted
NoneEvicted(t) ==
    \A k \in Instances :
        (comps[k].forAddr = th[t].addr /\ comps[k].forGen = th[t].gen) => ~comps[k].evicted

\* C1: callers of build on the same node, uncached before and not evicted
\* meanwhile, are served by one scriptComputer whose translation ran exactly once;
\* each returns the pair that run left in it, and none returns before it finished.
C1_OneTranslationSameResult ==
    \A t, u \in Threads :
        (Built(t) /\ Built(u) /\ SameNode(t, u) /\ OwnComputer(t) /\ OwnComputer(u)
           /\ NoneEvicted(t))
        => /\ th[t].sc = th[u].sc
           /\ comps[th[t].sc].once = "done"
           /\ comps[th[t].sc].runs = 1
           /\ th[t].script = comps[th[t].sc].script /\ th[t].err = comps[th[t].sc].err
           /\ th[u].script = th[t].script /\ th[u].err = th[t].err

C1_Witness ==
    /\ th["g1"].pc = "exec" /\ th["g2"].pc = "exec"
    /\ SameNode("g1", "g2")
    /\ th["g1"].sc = th["g2"].sc
    /\ OwnComputer("g1")
    /\ comps[th["g1"].sc].runs = 1
    /\ th["g1"].script = "arguments[0] + 1" /\ th["g2"].script = "arguments[0] + 1"

\* C2: every node identity is served by at most one scriptComputer for its whole
\* lifetime, and so is translated at most once.
C2_OneComputerPerNode ==
    \A j, k \in Instances : SameMade(j, k) => j = k

\* C2, amended: of the scriptComputers made for one node, at most one has not
\* been evicted, and two callers of one node hold different ones only if one of
\* the two was evicted; each scriptComputer runs its translation at most once.
C2_OneLiveComputerPerNode ==
    /\ \A j, k \in Instances :
          (SameMade(j, k) /\ j # k) => (comps[j].evicted \/ comps[k].evicted)
    /\ \A t, u \in Threads :
          (th[t].sc # 0 /\ th[u].sc # 0 /\ SameNode(t, u) /\ th[t].sc # th[u].sc)
          => (comps[th[t].sc].evicted \/ comps[th[u].sc].evicted)
    /\ \A k \in Instances : comps[k].runs <= 1

C2_Witness ==
    \E j, k \in Instances :
        /\ j # k /\ SameMade(j, k)
        /\ comps[j].evicted /\ ~comps[k].evicted
        /\ comps[j].runs = 1 /\ comps[k].runs = 1

\* the translation of the node scriptComputer k was made for failed
Failed(k) == translate(comps[k].made).err # Nil

\* C3: once the translation of a node has failed, the error is stored, every
\* later call on that node returns that error, the translation never runs again
\* for that node and no script is executed.
C3_ErrorNeverRetried ==
    \A k \in Instances :
        (comps[k].once = "done" /\ Failed(k)) =>
            /\ comps[k].err = translate(comps[k].made).err
            /\ \A j \in Instances : (SameMade(j, k) /\ j # k) => comps[j].runs = 0
            /\ \A t \in Threads :
                  (Finished(t) /\ th[t].addr = comps[k].forAddr /\ th[t].gen = comps[k].forGen)
                  => (th[t].err = comps[k].err /\ th[t].vm = "none")

\* C3, amended: once the translation has failed, the error is stored in the
\* scriptComputer, which never translates again; every call served by that
\* scriptComputer returns that error and executes no script; the node is
\* translated again only by another scriptComputer, made after that one was evicted.
C3_ErrorReplayedByComputer ==
    \A k \in Instances :
        (comps[k].once = "done" /\ Failed(k)) =>
            /\ comps[k].err = translate(comps[k].made).err
            /\ comps[k].runs = 1
            /\ \A j \in Instances :
                  (SameMade(j, k) /\ j # k) => (comps[j].evicted \/ comps[k].evicted)
            /\ \A t \in Threads :
                  (th[t].sc = k /\ (Built(t) \/ Finished(t)))
                  => /\ th[t].err = comps[k].err
                     /\ th[t].vm = "none"
                     /\ th[t].ran = <<>>
                     /\ th[t].pc = "idle" /\ th[t].outcome = "builderr"

C3_Witness ==
    /\ Finished("g1") /\ Finished("g2")
    /\ th["g1"].sc = th["g2"].sc
    /\ th["g1"].sc # 0
    /\ Failed(th["g1"].sc)
    /\ comps[th["g1"].sc].runs = 1
    /\ th["g1"].err = ErrCannotEvalWithColumnName
    /\ th["g2"].err = ErrCannotEvalWithColumnName

\* C5: what build returns to a caller is what translating the caller's own node
\* yields, also when the node's key was used before by a node since discarded.
C5_BuildReturnsOwnTranslation ==
    \A t \in Threads :
        (Built(t) /\ ~translate(th[t].node).panic)
        => /\ th[t].script = translate(th[t].node).script
           /\ th[t].err = translate(th[t].node).err

\* C6: every executor borrowed is returned exactly once, whatever vm.Eval did:
\* the executors out are those of the callers inside vm.Eval, none is out when no
\* call is in progress, and a call whose compilation failed borrowed none.
C6_ExecutorsReturned ==
    /\ borrowed = returned + Cardinality({t \in Threads : th[t].vm = "held"})
    /\ \A t \in Threads : th[t].vm = "held" <=> th[t].pc = "exec"
    /\ (\A t \in Threads : th[t].pc = "idle") => returned = borrowed
    /\ \A t \in Threads :
          Finished(t) =>
              /\ th[t].outcome \in Outcomes => th[t].vm = "returned"
              /\ th[t].outcome \in {"builderr", "buildpanic"} => th[t].vm = "none"

C6_Witness ==
    /\ \A t \in Threads : th[t].pc = "idle"
    /\ th["g1"].outcome = "panic"
    /\ th["g2"].outcome = "builderr"
    /\ borrowed = 2 /\ returned = 2

\* after a call that executed, the scriptComputer still holds the script and no
\* error, whatever the outcome, and every call that build returned to from it has
\* executed that script on its own arguments
ExecutedOwnArgs ==
    \A t \in Threads :
        (Finished(t) /\ th[t].outcome \in Outcomes)
        => /\ comps[th[t].sc].err = Nil
           /\ th[t].ran = <<comps[th[t].sc].script, <<t>>>>
           /\ \A u \in Threads :
                 (Finished(u) /\ th[u].sc = th[t].sc /\ th[u].outcome # "buildpanic") =>
                     (th[u].outcome \in Outcomes /\ th[u].ran[1] = th[t].ran[1])

\* the step that ends an execution changes neither the cache nor a scriptComputer
ExecutionFrame ==
    \A t \in Threads :
        (th[t].pc = "exec" /\ th'[t].pc = "idle") => (cache' = cache /\ comps' = comps)

\* C7: execution outcomes are never cached: a call that ends with a value, an
\* error or a panic of vm.Eval leaves the cache and the scriptComputers as they
\* were, and every call served by the same scriptComputer executes the same script
\* on its own arguments.
C7_ExecutionNotCached == []ExecutedOwnArgs /\ [][ExecutionFrame]_vars

C7_Witness ==
    /\ Finished("g1") /\ Finished("g2")
    /\ th["g1"].outcome = "error" /\ th["g2"].outcome = "value"
    /\ th["g1"].sc = th["g2"].sc
    /\ th["g1"].ran = <<"arguments[0] + 1", <<"g1">>>>
    /\ th["g2"].ran = <<"arguments[0] + 1", <<"g2">>>>

\* the node t evaluates, or last evaluated, is still the one allocated at its address
Live(t) == th[t].addr # "" /\ heap[th[t].addr].gen = th[t].gen

\* C11: two distinct nodes, both live, never share a scriptComputer, structurally
\* identical or not: each caller is handed a scriptComputer kept under the address
\* of its own node, so it neither returns from, runs nor waits on the other's.
C11_DistinctNodesIndependent ==
    \A t, u \in Threads :
        (th[t].sc # 0 /\ th[u].sc # 0 /\ Live(t) /\ Live(u) /\ th[t].addr # th[u].addr)
        => /\ th[t].sc # th[u].sc
           /\ comps[th[t].sc].forAddr = th[t].addr
           /\ comps[th[u].sc].forAddr = th[u].addr

C11_Witness ==
    /\ Built("g1") /\ Built("g2")
    /\ Live("g1") /\ Live("g2")
    /\ th["g1"].addr # th["g2"].addr
    /\ th["g1"].node = th["g2"].node
    /\ th["g1"].sc # th["g2"].sc
    /\ comps[th["g1"].sc].runs = 1 /\ comps[th["g2"].sc].runs = 1
    /\ OwnComputer("g1") /\ OwnComputer("g2")
    /\ th["g1"].script = "arguments[0] + 1" /\ th["g2"].script = "arguments[0] + 1"

\* the entries of the cache that the step drops
EvictedKeys == {cache[i].key : i \in {j \in 1 .. Len(cache) : IndexOf(cache', cache[j].key) = 0}}

\* every entry the step drops is the one build used (found or inserted) longest ago
EvictsLeastRecentlyAccessed ==
    \A k \in EvictedKeys : k = accessed[Len(accessed)]

\* C12: the cache never holds more than Capacity entries, and an insert into a
\* full cache evicts the entry least recently accessed by build, where finding an
\* entry (by Get, or by PeekOrAdd after losing a race) and inserting one are
\* accesses.
C12_CapacityAndLeastRecentlyAccessed ==
    [](Len(cache) <= Capacity) /\ [][EvictsLeastRecentlyAccessed]_vars

\* C13: whatever compute returns to a caller is either a non-empty script with a
\* nil error or an empty script with a non-nil error, also for a caller that
\* arrives after a first run that ended by a panic.
C13_ScriptXorError ==
    \A t \in Threads :
        Built(t) => \/ th[t].script # "" /\ th[t].err = Nil
                    \/ th[t].script = "" /\ th[t].err # Nil

====
